---- MODULE Spec2Model ----
(***************************************************************************)
(* A model of Main.py, the Baseball-Reference play-by-play scorebook       *)
(* tabulator.  Python strings are TLA+ strings (TLC evaluates Len, Head,   *)
(* Tail, SubSeq and \o on them); lists are sequences; dicts, whose         *)
(* insertion order the renderer depends on, are sequences of [k, v]        *)
(* records in insertion order.                                             *)
(***************************************************************************)
EXTENDS Integers, Sequences, FiniteSets, TLC

VARIABLES
    input_lines,    \* get_input_lines(): the stripped, non-empty lines of input.txt
    pc,             \* position of the script
    line_idx,       \* index of the next line the pinch-hitter loop reads
    pinch_map,      \* pinch_map: substitute -> original
    filtered_rows,  \* filtered_rows, header first
    row_idx,        \* index into filtered_rows of the row being accumulated
    arr,            \* arr: inning -> batter -> cell
    sb_i,           \* loop counter i of the STEALS loop
    cs_j,           \* loop counter j of the CAUGHT STEALING loop
    sb_player,      \* the script-level name sb_player: [def |-> bound?, name |-> value]
    headers,        \* headers handed to tabulate
    output_rows,    \* output_rows handed to tabulate
    err,            \* the exception that ended the run, "" if none
    cl_desc,        \* classifier specification: the description under test
    cl_out          \* classifier specification: to_scorebook's result

vars == <<input_lines, pc, line_idx, pinch_map, filtered_rows, row_idx, arr,
          sb_i, cs_j, sb_player, headers, output_rows, err, cl_desc, cl_out>>

(***************************************************************************)
(* Python's str and list primitives                                        *)
(***************************************************************************)
Min(S) == CHOOSE x \in S : \A y \in S : x <= y

Char(s, i) == SubSeq(s, i, i)

Last(q) == q[Len(q)]

\* sub in s
Contains(s, sub) ==
    \E i \in 1..(Len(s) - Len(sub) + 1) : SubSeq(s, i, i + Len(sub) - 1) = sub

\* s.find(sub) + 1: the first position of sub in s, 0 if there is none
Find(s, sub) ==
    LET hits == {i \in 1..(Len(s) - Len(sub) + 1) : SubSeq(s, i, i + Len(sub) - 1) = sub}
    IN  IF hits = {} THEN 0 ELSE Min(hits)

\* s.split(sep), sep not empty
RECURSIVE Split(_, _)
Split(s, sep) ==
    LET k == Find(s, sep)
    IN  IF k = 0 THEN <<s>>
        ELSE <<SubSeq(s, 1, k - 1)>> \o Split(SubSeq(s, k + Len(sep), Len(s)), sep)

\* s.count(sub), sub not empty: non-overlapping occurrences, left to right
Count(s, sub) == Len(Split(s, sub)) - 1

\* The characters of a string of this module are U+0001..U+00FF.  Of these
\* str.isspace holds of U+0009..U+000D, U+001C..U+001F, U+0020, U+0085 and
\* U+00A0, listed here in that order.
WhiteSpace ==
    {"\t", "\n", "", "\f", "\r",
     "", "", "", "", " ", "", " "}

\* s.split(): the maximal runs of non-whitespace characters
RECURSIVE SplitWS(_)
SplitWS(s) ==
    IF s = "" THEN <<>>
    ELSE IF Head(s) \in WhiteSpace THEN SplitWS(Tail(s))
    ELSE LET ends == {i \in 1..Len(s) : Char(s, i) \in WhiteSpace}
             e == IF ends = {} THEN Len(s) + 1 ELSE Min(ends)
         IN  <<SubSeq(s, 1, e - 1)>> \o SplitWS(SubSeq(s, e, Len(s)))

\* sep.join(q)
RECURSIVE Join(_, _)
Join(q, sep) ==
    IF q = <<>> THEN ""
    ELSE IF Len(q) = 1 THEN q[1]
    ELSE q[1] \o sep \o Join(Tail(q), sep)

\* the characters str.upper changes to one character of U+0001..U+00FF, and
\* their images, position by position
LowerLetters == "abcdefghijklmnopqrstuvwxyzàáâãäåæçèéêëìíîïðñòóôõöøùúûüýþ"
UpperLetters == "ABCDEFGHIJKLMNOPQRSTUVWXYZÀÁÂÃÄÅÆÇÈÉÊËÌÍÎÏÐÑÒÓÔÕÖØÙÚÛÜÝÞ"

\* the decimal digits, the characters int() reads
Digits == "0123456789"

DecimalSet == {Char(Digits, i) : i \in 1..Len(Digits)}

\* str.isupper: the images of LowerLetters
UpperSet == {Char(UpperLetters, i) : i \in 1..Len(UpperLetters)}

\* str.isdigit: the decimal digits and the superscripts U+00B2, U+00B3, U+00B9
DigitSet == DecimalSet \cup {"²", "³", "¹"}

IsUpperChar(c) == c \in UpperSet
IsDigitChar(c) == c \in DigitSet

\* str.upper, character by character; U+00DF becomes the two letters SS
UpperMap ==
    [c \in {Char(LowerLetters, i) : i \in 1..Len(LowerLetters)} \cup {"ß"} |->
        IF c = "ß" THEN "SS"
        ELSE Char(UpperLetters, CHOOSE i \in 1..Len(LowerLetters) : Char(LowerLetters, i) = c)]

\* str.upper sends U+00B5 to U+039C and U+00FF to U+0178, characters no string
\* of this module can hold
NoUpper == {"µ", "ÿ"}

\* not defined on NoUpper; no input drawn below holds a character of it
UpperChar(c) ==
    CASE c \in DOMAIN UpperMap -> UpperMap[c]
      [] c \notin DOMAIN UpperMap \cup NoUpper -> c

\* s.upper(), by halves
RECURSIVE Upper(_)
Upper(s) ==
    IF Len(s) = 0 THEN ""
    ELSE IF Len(s) = 1 THEN UpperChar(s)
    ELSE Upper(SubSeq(s, 1, Len(s) \div 2)) \o Upper(SubSeq(s, Len(s) \div 2 + 1, Len(s)))

\* ''.join(filter(str.isdigit, s))
RECURSIVE DigitsOf(_)
DigitsOf(s) ==
    IF s = "" THEN ""
    ELSE (IF IsDigitChar(Head(s)) THEN Head(s) ELSE "") \o DigitsOf(Tail(s))

\* s * n
RECURSIVE Repeat(_, _)
Repeat(s, n) == IF n <= 0 THEN "" ELSE s \o Repeat(s, n - 1)

DigitVal(c) == (CHOOSE i \in 1..Len(Digits) : Char(Digits, i) = c) - 1

\* int(s) for a non-empty string of decimal digits
RECURSIVE ToInt(_)
ToInt(s) ==
    IF Len(s) = 1 THEN DigitVal(s)
    ELSE 10 * ToInt(SubSeq(s, 1, Len(s) - 1)) + DigitVal(Char(s, Len(s)))

\* int(s), s made of str.isdigit characters, raises ValueError unless s is a
\* non-empty string of decimal digits
IsIntLiteral(s) == s # "" /\ \A i \in 1..Len(s) : Char(s, i) \in DecimalSet

\* str(n), n >= 0
RECURSIVE ToStr(_)
ToStr(n) ==
    IF n < 10 THEN Char(Digits, n + 1)
    ELSE ToStr(n \div 10) \o Char(Digits, (n % 10) + 1)

\* q.index(x) + 1
IndexOf(q, x) == Min({i \in 1..Len(q) : q[i] = x})

(***************************************************************************)
(* Python dicts, in insertion order                                        *)
(***************************************************************************)
DHas(d, k) == \E i \in 1..Len(d) : d[i].k = k

DGet(d, k) == d[CHOOSE i \in 1..Len(d) : d[i].k = k].v

\* d.get(k, dflt)
DGetOr(d, k, dflt) == IF DHas(d, k) THEN DGet(d, k) ELSE dflt

\* d[k] = v
DPut(d, k, v) ==
    IF DHas(d, k)
    THEN [i \in 1..Len(d) |-> IF d[i].k = k THEN [k |-> k, v |-> v] ELSE d[i]]
    ELSE Append(d, [k |-> k, v |-> v])

DKeys(d) == [i \in 1..Len(d) |-> d[i].k]

(***************************************************************************)
(* Scorebook conversion functions                                          *)
(***************************************************************************)
\* pos_map, in the order the dict literal lists its keys
pos_map ==
    << <<"1B", "3">>, <<"2B", "4">>, <<"3B", "5">>, <<"SS", "6">>, <<"LF", "7">>,
       <<"CF", "8">>, <<"RF", "9">>, <<"P", "1">>, <<"C", "2">> >>

score_unassisted(desc) ==
    LET hits == {i \in 1..Len(pos_map) : Contains(desc, pos_map[i][1])}
    IN  IF hits = {} THEN "" ELSE pos_map[Min(hits)][2]

\* the digits one hyphenated word contributes
RECURSIVE WordDigits(_)
WordDigits(parts) ==
    IF parts = <<>> THEN <<>>
    ELSE (IF score_unassisted(Head(parts)) # "" THEN <<score_unassisted(Head(parts))>>
          ELSE <<>>) \o WordDigits(Tail(parts))

RECURSIVE GroundoutDigits(_)
GroundoutDigits(words) ==
    IF words = <<>> THEN <<>>
    ELSE (IF Contains(Head(words), "-") THEN WordDigits(Split(Head(words), "-"))
          ELSE <<>>) \o GroundoutDigits(Tail(words))

score_groundout(desc) ==
    IF desc = "" THEN "" ELSE Join(GroundoutDigits(SplitWS(desc)), "-")

\* a slip that forgets the foul suffix
AirOut_no_foul(letter, desc) == letter \o score_unassisted(desc)

\* the LINEOUT / POPFLY / FLYBALL branches: letter, position digit, foul suffix
AirOut(letter, desc) ==
    LET val == letter \o score_unassisted(desc)
    IN  IF Contains(desc, "FOUL") THEN val \o "f" ELSE val

to_scorebook(desc) ==
    IF desc = "" THEN ""
    ELSE IF Contains(desc, "WALK") THEN "BB"
    ELSE IF Contains(desc, "HIT BY PITCH") THEN "HBP"
    ELSE IF Contains(desc, "SACRIFICE") THEN "SAC"
    ELSE IF Contains(desc, "SINGLE") THEN "1B"
    ELSE IF Contains(desc, "DOUBLE")
         THEN (IF Contains(desc, "DOUBLE PLAY") THEN "GDP " \o score_groundout(desc) ELSE "2B")
    ELSE IF Contains(desc, "TRIPLE")
         THEN (IF Contains(desc, "TRIPLE PLAY") THEN "GTP " \o score_groundout(desc) ELSE "3B")
    ELSE IF Contains(desc, "HOMERS") \/ Contains(desc, "HOME RUN") THEN "HR"
    ELSE IF Contains(desc, "STRIKEOUT")
         THEN (IF Contains(desc, "LOOKING") THEN "K*" ELSE "K")
    ELSE IF Contains(desc, "GROUNDOUT")
         THEN (IF Contains(desc, "UNASSISTED") THEN score_unassisted(desc)
               ELSE score_groundout(desc))
    ELSE IF Contains(desc, "LINEOUT") THEN AirOut("L", desc)
    ELSE IF Contains(desc, "POPFLY") THEN AirOut("P", desc)
    ELSE IF Contains(desc, "FLYBALL") THEN AirOut("F", desc)
    ELSE ""

HEADER == "Inn,Score,Out,RoB,Pit(cnt),R/O,@Bat,Batter,Pitcher,wWPA,wWE,Play Description"

(***************************************************************************)
(* Pinch-hitter scan: one iteration of the loop over input_lines           *)
(***************************************************************************)
\* a slip that takes the first token after the phrase as the original batter
pinch_scan_first_token(pm, raw) ==
    LET line == Upper(raw)
        words == Split(line, "PINCH HITS FOR")
        before == SplitWS(words[1])
        after == SplitWS(words[2])
    IN  IF ~Contains(line, "PINCH HITS FOR") THEN [err |-> "", map |-> pm]
        ELSE IF before = <<>> THEN [err |-> "IndexError", map |-> pm]
        ELSE IF Len(after) > 2 THEN [err |-> "", map |-> DPut(pm, Last(before), after[1])]
        ELSE [err |-> "", map |-> pm]

\* The try body.  words[0].split()[-1] raises IndexError when nothing precedes
\* the phrase; the handler catches ValueError only, so IndexError leaves the loop.
pinch_scan(pm, raw) ==
    LET line == Upper(raw)
        words == Split(line, "PINCH HITS FOR")
        before == SplitWS(words[1])
        after == SplitWS(words[2])
    IN  IF ~Contains(line, "PINCH HITS FOR") THEN [err |-> "", map |-> pm]
        ELSE IF before = <<>> THEN [err |-> "IndexError", map |-> pm]
        ELSE IF Len(after) > 2 THEN [err |-> "", map |-> DPut(pm, Last(before), after[2])]
        ELSE [err |-> "", map |-> pm]

(***************************************************************************)
(* CSV parsing and the row filter                                          *)
(***************************************************************************)
\* the closing quote of a quoted field: the first quote at or after from that
\* is not doubled; Len(s) + 1 when the field is not closed
RECURSIVE QuoteEnd(_, _)
QuoteEnd(s, from) ==
    LET k == Find(SubSeq(s, from, Len(s)), "\"")
        at == from + k - 1
    IN  IF k = 0 THEN Len(s) + 1
        ELSE IF at < Len(s) /\ Char(s, at + 1) = "\"" THEN QuoteEnd(s, at + 2)
        ELSE at

\* the text of a quoted field with every doubled quote made one quote
Unquote(t) == Join(Split(t, "\"\""), "\"")

\* csv.reader's default dialect on the text s of one line, from the start of a
\* field, or, when quoted, from inside a quoted field whose text so far is cur;
\* acc holds the fields of the record before it.  A field that opens with a
\* quote runs to its closing quote, and what follows the closing quote up to
\* the next comma is taken as it stands.  A quoted field not closed when the
\* line ends is left open: the next line continues it, nothing in between.
RECURSIVE CsvFrom(_, _, _, _)
CsvFrom(s, quoted, cur, acc) ==
    IF quoted
    THEN LET close == QuoteEnd(s, 1)
             rest == SubSeq(s, close + 1, Len(s))
             k == Find(rest, ",")
             body == cur \o Unquote(SubSeq(s, 1, close - 1))
         IN  IF close > Len(s) THEN [open |-> TRUE, cur |-> cur \o Unquote(s), acc |-> acc]
             ELSE IF k = 0 THEN [open |-> FALSE, cur |-> "", acc |-> Append(acc, body \o rest)]
             ELSE CsvFrom(SubSeq(rest, k + 1, Len(rest)), FALSE, "",
                          Append(acc, body \o SubSeq(rest, 1, k - 1)))
    ELSE IF s # "" /\ Head(s) = "\"" THEN CsvFrom(Tail(s), TRUE, "", acc)
    ELSE LET k == Find(s, ",")
         IN  IF k = 0 THEN [open |-> FALSE, cur |-> "", acc |-> Append(acc, s)]
             ELSE CsvFrom(SubSeq(s, k + 1, Len(s)), FALSE, "", Append(acc, SubSeq(s, 1, k - 1)))

\* the records of the lines; the lines hold no line break.  An empty line
\* outside a quoted field is the empty record, and a quoted field still open
\* after the last line ends there.
RECURSIVE CsvRecords(_, _, _, _)
CsvRecords(lines, open, cur, acc) ==
    IF lines = <<>> THEN (IF open THEN <<Append(acc, cur)>> ELSE <<>>)
    ELSE IF ~open /\ Head(lines) = "" THEN <<acc>> \o CsvRecords(Tail(lines), FALSE, "", <<>>)
    ELSE LET r == CsvFrom(Head(lines), open, cur, acc)
         IN  IF r.open THEN CsvRecords(Tail(lines), TRUE, r.cur, r.acc)
             ELSE <<r.acc>> \o CsvRecords(Tail(lines), FALSE, "", <<>>)

\* rows = list(csv.reader(input_lines[header_idx:]))
csv_rows(lines) ==
    LET header_idx == IndexOf(lines, HEADER)
    IN  CsvRecords(SubSeq(lines, header_idx, Len(lines)), FALSE, "", <<>>)

\* the Batter column: a leading capitalised word of a multi-word value is dropped
strip_leading(val) ==
    LET words == SplitWS(val)
    IN  IF Len(words) > 1
        THEN Join(IF IsUpperChar(Head(words[1])) THEN Tail(words) ELSE words, " ")
        ELSE val

RECURSIVE PickColumns(_, _)
PickColumns(row, idxs) ==
    IF idxs = <<>> THEN <<>>
    ELSE LET idx == Head(idxs)
         IN  (IF idx < Len(row)
              THEN <<IF idx = 7 THEN strip_leading(row[idx + 1]) ELSE row[idx + 1]>>
              ELSE <<>>) \o PickColumns(row, Tail(idxs))

\* columns Inn, @Bat, Batter, Play Description of every row
select_columns(rows) == [i \in 1..Len(rows) |-> PickColumns(rows[i], <<0, 6, 7, 11>>)]

IsMIL(row) == Len(row) > 1 /\ row[2] = "MIL"

\* a slip that also drops the first data row
keep_mil_skipping(frows) == <<frows[1]>> \o SelectSeq(SubSeq(frows, 3, Len(frows)), IsMIL)

\* [header] + the rows after it whose @Bat is MIL
keep_mil(frows) == <<frows[1]>> \o SelectSeq(Tail(frows), IsMIL)

row_filter(rows) == keep_mil(select_columns(rows))

(***************************************************************************)
(* Accumulation: the body of the loop over filtered_rows[1:]               *)
(***************************************************************************)
inn_idx == IndexOf(filtered_rows[1], "Inn")
batter_idx == IndexOf(filtered_rows[1], "Batter")
desc_idx == IndexOf(filtered_rows[1], "Play Description")

Max3(a, b, c) == IF a >= b /\ a >= c THEN a ELSE IF b >= c THEN b ELSE c

\* the row is too short for the three columns: continue
TooShort(row) == Len(row) < Max3(inn_idx, batter_idx, desc_idx)

RowInn(row) == DigitsOf(row[inn_idx])
RowBatter(row) == Upper(row[batter_idx])
RowDesc(row) == Upper(row[desc_idx])
RowRbi(row) == Count(RowDesc(row), "SCORES")
RowSb(row) == Count(RowDesc(row), "STEALS")
RowCs(row) == Count(RowDesc(row), "CAUGHT STEALING")

\* desc = "FC" if batter + " TO " in desc else to_scorebook(play)
RowShorthand(row) ==
    IF Contains(RowDesc(row), RowBatter(row) \o " TO ") THEN "FC"
    ELSE to_scorebook(Split(RowDesc(row), "(")[1])

\* batter = pinch_map[batter] if batter in pinch_map
Resolve(pm, name) == IF DHas(pm, name) THEN DGet(pm, name) ELSE name

\* a slip that appends ", RBI" once however many runners score
rbi_suffix_once(cell, rbi) == IF cell # "" /\ rbi > 0 THEN cell \o ", RBI" ELSE cell

\* if arr[inn][batter] != "": arr[inn][batter] += ", RBI" * rbi
rbi_suffix(cell, rbi) == IF cell # "" THEN cell \o Repeat(", RBI", rbi) ELSE cell

\* arr[inn][name] = cell, creating arr[inn] when absent
SetCell(a, inn, name, cell) == DPut(a, inn, DPut(DGetOr(a, inn, <<>>), name, cell))

CellOr(a, inn, name, dflt) == DGetOr(DGetOr(a, inn, <<>>), name, dflt)

\* the play append and the RBI suffix
accumulate_play(a, pm, row) ==
    LET inn == RowInn(row)
        batter == Resolve(pm, RowBatter(row))
        old == CellOr(a, inn, batter, "")
        played == IF old # "" THEN old \o "; " \o RowShorthand(row) ELSE RowShorthand(row)
    IN  SetCell(a, inn, batter, rbi_suffix(played, RowRbi(row)))

\* one iteration of the STEALS loop
steal_step(a, pm, row, i) ==
    LET toks == SplitWS(Split(RowDesc(row), "STEALS")[i + 1])
        player == Resolve(pm, Last(toks))
    IN  IF toks = <<>> THEN [err |-> "IndexError", arr |-> a, sb |-> [def |-> FALSE, name |-> ""]]
        ELSE [err |-> "",
              arr |-> SetCell(a, RowInn(row), player, CellOr(a, RowInn(row), player, "") \o ", SB"),
              sb |-> [def |-> TRUE, name |-> player]]

\* one iteration of the CAUGHT STEALING loop: the runner is read before the
\* first occurrence every time, and a mapped runner is replaced by
\* pinch_map[sb_player]
caught_step(a, pm, row, sbp) ==
    LET toks == SplitWS(Split(RowDesc(row), "CAUGHT STEALING")[1])
        runner == Last(toks)
        player == IF DHas(pm, runner) THEN DGet(pm, sbp.name) ELSE runner
    IN  IF toks = <<>> THEN [err |-> "IndexError", arr |-> a]
        ELSE IF DHas(pm, runner) /\ ~sbp.def THEN [err |-> "NameError", arr |-> a]
        ELSE IF DHas(pm, runner) /\ ~DHas(pm, sbp.name) THEN [err |-> "KeyError", arr |-> a]
        ELSE [err |-> "",
              arr |-> SetCell(a, RowInn(row), player, CellOr(a, RowInn(row), player, "") \o ", CS")]

(***************************************************************************)
(* Output table                                                            *)
(***************************************************************************)
\* sorted(keys, key=int): a stable insertion sort
RECURSIVE SortByInt(_)
SortByInt(q) ==
    IF q = <<>> THEN <<>>
    ELSE LET s == SortByInt(SubSeq(q, 1, Len(q) - 1))
             x == Last(q)
             p == Cardinality({i \in 1..Len(s) : ToInt(s[i]) <= ToInt(x)})
         IN  SubSeq(s, 1, p) \o <<x>> \o SubSeq(s, p + 1, Len(s))

RECURSIVE AppendNew(_, _)
AppendNew(order, names) ==
    IF names = <<>> THEN order
    ELSE AppendNew(IF \E i \in 1..Len(order) : order[i] = Head(names) THEN order
                   ELSE Append(order, Head(names)), Tail(names))

RECURSIVE BattersOrder(_, _, _)
BattersOrder(a, inns, order) ==
    IF inns = <<>> THEN order
    ELSE BattersOrder(a, Tail(inns), AppendNew(order, DKeys(DGet(a, Head(inns)))))

MaxOf(S) == CHOOSE x \in S : \A y \in S : y <= x

\* a slip that forgets the nine-inning floor
max_inn_no_floor(a) == IF a = <<>> THEN 9 ELSE MaxOf({ToInt(a[i].k) : i \in 1..Len(a)})

max_inn(a) == IF a = <<>> THEN 9 ELSE MaxOf({ToInt(a[i].k) : i \in 1..Len(a)} \cup {9})

inn_columns(a) == [i \in 1..max_inn(a) |-> ToStr(i)]

render_rows(a) ==
    LET order == BattersOrder(a, SortByInt(DKeys(a)), <<>>)
        cols == inn_columns(a)
    IN  [b \in 1..Len(order) |->
            <<order[b]>> \o [c \in 1..Len(cols) |-> CellOr(a, cols[c], order[b], "")]]

render_headers(a) == <<"Batter">> \o inn_columns(a)

(***************************************************************************)
(* Inputs                                                                  *)
(***************************************************************************)
\* at most this many lines beside the header line
MaxLines == 3

\* at most this many phrases in a description handed to the classifier
MaxPhrases == 3

\* substitution sentences
PinchLines ==
    { "SMITH PINCH HITS FOR JONES IN THE 7TH",
      "Al Jones pinch hits for Bo Smith (CF) batting 9th",
      "Al Doe pinch hits for Roe",
      "pinch hits for Bo Smith (CF) batting 9th" }

\* play-by-play rows; the blank in the Batter field of the row of inning ² is
\* U+00A0
RowLines ==
    { "1,,,,,,MIL,Smith,,,,Smith Singles",
      "1,,,,,,MIL,Jones,,,,Jones Strikes Out Looking",
      "1,,,,,,MIL,Jones,,,,Jones Singles. Smith Scores. Doe Scores.",
      "b1,,,,,,MIL,Al Doe,,,,Jones Steals 2B; Jones Caught Stealing 3B (C-3B)",
      "t7,,,,,,MIL,Al Doe,,,,Wild Pitch; Smith Scores; Jones Caught Stealing 2B",
      ",,,,,,MIL,Doe,,,,Walk",
      "²,,,,,,MIL,Émile Straße,,,,Walk",
      "1,,,,,,MIL,\"Doe",
      "t1,,,,,,CHC,Roe,,,,Strikeout Looking",
      "b11,0-0,1,---,\"3,(1-2)\",O,MIL,Doe,Roe,-2%,48%,\"Groundout: SS-2B/Forceout at 2B; Doe to 1B, Smith Scores\"" }

SeqsUpTo(S, n) == UNION {[1..k -> S] : k \in 0..n}

\* the files read: substitution sentences, then the header and rows, or no header
Inputs ==
    { pre \o <<HEADER>> \o rows :
        <<pre, rows>> \in { pr \in SeqsUpTo(PinchLines, MaxLines) \X SeqsUpTo(RowLines, MaxLines) :
                              Len(pr[1]) + Len(pr[2]) <= MaxLines } }
    \cup SeqsUpTo(PinchLines, MaxLines)

Phrases ==
    { "DOUBLE PLAY:", "SS-2B-1B", "PICK-OFF", "FOUL", "POPFLY:", "LINEOUT:", "FLYBALL:",
      "C", "CF", "SACRIFICE FLY", "GROUNDOUT:", "3B" }

Descriptions == {Join(q, " ") : q \in SeqsUpTo(Phrases, MaxPhrases)}

(***************************************************************************)
(* The script                                                              *)
(***************************************************************************)
Unbound == [def |-> FALSE, name |-> ""]

Init ==
    /\ input_lines \in Inputs
    /\ pc = "pinch"
    /\ line_idx = 1
    /\ pinch_map = <<>>
    /\ filtered_rows = <<>>
    /\ row_idx = 0
    /\ arr = <<>>
    /\ sb_i = 0
    /\ cs_j = 0
    /\ sb_player = Unbound
    /\ headers = <<>>
    /\ output_rows = <<>>
    /\ err = ""
    /\ cl_desc = ""
    /\ cl_out = ""

\* for line in input_lines: one iteration
ScanPinch ==
    /\ pc = "pinch"
    /\ line_idx <= Len(input_lines)
    /\ LET r == pinch_scan(pinch_map, input_lines[line_idx])
       IN  /\ pinch_map' = r.map
           /\ err' = r.err
           /\ pc' = IF r.err = "" THEN "pinch" ELSE "error"
    /\ line_idx' = line_idx + 1
    /\ UNCHANGED <<input_lines, filtered_rows, row_idx, arr, sb_i, cs_j, sb_player,
                   headers, output_rows, cl_desc, cl_out>>

HasHeader(lines) == \E i \in 1..Len(lines) : lines[i] = HEADER

\* where the script goes once row k is finished
AfterRow(frows, k) == IF k + 1 <= Len(frows) THEN "play" ELSE "render"

\* header lookup, CSV parsing and the row filter
ParseFilter ==
    /\ pc = "pinch"
    /\ line_idx > Len(input_lines)
    /\ IF HasHeader(input_lines)
       THEN /\ filtered_rows' = row_filter(csv_rows(input_lines))
            /\ row_idx' = 2
            /\ pc' = AfterRow(filtered_rows', 1)
       ELSE /\ pc' = "exit"
            /\ UNCHANGED <<filtered_rows, row_idx>>
    /\ UNCHANGED <<input_lines, line_idx, pinch_map, arr, sb_i, cs_j, sb_player,
                   headers, output_rows, err, cl_desc, cl_out>>

CurRow == filtered_rows[row_idx]

\* for row in filtered_rows[1:]: up to the RBI suffix
AccumulatePlay ==
    /\ pc = "play"
    /\ IF TooShort(CurRow)
       THEN /\ pc' = AfterRow(filtered_rows, row_idx)
            /\ row_idx' = row_idx + 1
            /\ UNCHANGED arr
       ELSE /\ arr' = accumulate_play(arr, pinch_map, CurRow)
            /\ pc' = IF RowSb(CurRow) > 0 THEN "sb"
                     ELSE IF RowCs(CurRow) > 0 THEN "cs"
                     ELSE AfterRow(filtered_rows, row_idx)
            /\ row_idx' = IF RowSb(CurRow) > 0 \/ RowCs(CurRow) > 0 THEN row_idx
                          ELSE row_idx + 1
    /\ sb_i' = 0
    /\ cs_j' = 0
    /\ UNCHANGED <<input_lines, line_idx, pinch_map, filtered_rows, sb_player,
                   headers, output_rows, err, cl_desc, cl_out>>

\* for i in range(sb): one iteration
StealStep ==
    /\ pc = "sb"
    /\ LET r == steal_step(arr, pinch_map, CurRow, sb_i)
           more == sb_i + 1 < RowSb(CurRow)
           caught == RowCs(CurRow) > 0
       IN  /\ arr' = r.arr
           /\ err' = r.err
           /\ sb_player' = IF r.err = "" THEN r.sb ELSE sb_player
           /\ pc' = IF r.err # "" THEN "error"
                    ELSE IF more THEN "sb"
                    ELSE IF caught THEN "cs"
                    ELSE AfterRow(filtered_rows, row_idx)
           /\ row_idx' = IF r.err = "" /\ ~more /\ ~caught THEN row_idx + 1 ELSE row_idx
    /\ sb_i' = sb_i + 1
    /\ UNCHANGED <<input_lines, line_idx, pinch_map, filtered_rows, cs_j,
                   headers, output_rows, cl_desc, cl_out>>

\* for j in range(cs): one iteration
CaughtStep ==
    /\ pc = "cs"
    /\ LET r == caught_step(arr, pinch_map, CurRow, sb_player)
           more == cs_j + 1 < RowCs(CurRow)
       IN  /\ arr' = r.arr
           /\ err' = r.err
           /\ pc' = IF r.err # "" THEN "error"
                    ELSE IF more THEN "cs"
                    ELSE AfterRow(filtered_rows, row_idx)
           /\ row_idx' = IF r.err = "" /\ ~more THEN row_idx + 1 ELSE row_idx
    /\ cs_j' = cs_j + 1
    /\ UNCHANGED <<input_lines, line_idx, pinch_map, filtered_rows, sb_i, sb_player,
                   headers, output_rows, cl_desc, cl_out>>

\* the output table; sorted(arr.keys(), key=int) raises ValueError on a key
\* that is no integer literal
Render ==
    /\ pc = "render"
    /\ IF \A i \in 1..Len(arr) : IsIntLiteral(arr[i].k)
       THEN /\ headers' = render_headers(arr)
            /\ output_rows' = render_rows(arr)
            /\ pc' = "done"
            /\ err' = ""
       ELSE /\ pc' = "error"
            /\ err' = "ValueError"
            /\ UNCHANGED <<headers, output_rows>>
    /\ UNCHANGED <<input_lines, line_idx, pinch_map, filtered_rows, row_idx, arr,
                   sb_i, cs_j, sb_player, cl_desc, cl_out>>

Next == ScanPinch \/ ParseFilter \/ AccumulatePlay \/ StealStep \/ CaughtStep \/ Render

Spec == Init /\ [][Next]_vars

(***************************************************************************)
(* The classifier alone, applied to one description                        *)
(***************************************************************************)
ClassifierInit ==
    /\ cl_desc \in Descriptions
    /\ cl_out = ""
    /\ pc = "classify"
    /\ input_lines = <<>>
    /\ line_idx = 1
    /\ pinch_map = <<>>
    /\ filtered_rows = <<>>
    /\ row_idx = 0
    /\ arr = <<>>
    /\ sb_i = 0
    /\ cs_j = 0
    /\ sb_player = Unbound
    /\ headers = <<>>
    /\ output_rows = <<>>
    /\ err = ""

Classify ==
    /\ pc = "classify"
    /\ cl_out' = to_scorebook(cl_desc)
    /\ pc' = "classified"
    /\ UNCHANGED <<input_lines, line_idx, pinch_map, filtered_rows, row_idx, arr,
                   sb_i, cs_j, sb_player, headers, output_rows, err, cl_desc>>

ClassifierNext == Classify

ClassifierSpec == ClassifierInit /\ [][ClassifierNext]_vars

(***************************************************************************)
(* Properties                                                              *)
(***************************************************************************)
EmptyCells(n) == [i \in 1..n |-> ""]

NineColumns == <<"Batter", "1", "2", "3", "4", "5", "6", "7", "8", "9">>

ScanFinished == pc \notin {"pinch", "error", "exit", "classify", "classified"}

C1Input ==
    <<HEADER, "1,,,,,,MIL,Smith,,,,Smith Singles",
      "1,,,,,,MIL,Jones,,,,Jones Strikes Out Looking">>

\* C1 as stated: the two-row input renders SMITH with "1B" and JONES with "K*"
\* in column 1 of a nine-column table, every other cell empty.
C1_Original ==
    (pc = "done" /\ input_lines = C1Input) =>
        /\ headers = NineColumns
        /\ output_rows = << <<"SMITH", "1B">> \o EmptyCells(8),
                            <<"JONES", "K*">> \o EmptyCells(8) >>

\* C1 amended: the two-row input renders two batter rows under columns 1..9,
\* SMITH with "1B" in column 1 and JONES with every cell empty, column 1
\* included: "JONES STRIKES OUT LOOKING" holds no keyword of the classifier
\* ("STRIKEOUT" is the keyword), so it classifies to the empty string.
C1_Amended ==
    (pc = "done" /\ input_lines = C1Input) =>
        /\ headers = NineColumns
        /\ output_rows = << <<"SMITH", "1B">> \o EmptyCells(8),
                            <<"JONES", "">> \o EmptyCells(8) >>

C1_Witness == pc = "done" /\ input_lines = C1Input /\ Len(output_rows) = 2

SmithLine == "SMITH PINCH HITS FOR JONES IN THE 7TH"

\* SmithLine is in the input and no line after it registers SMITH again
SmithLineLast ==
    \E i \in 1..Len(input_lines) :
        /\ input_lines[i] = SmithLine
        /\ \A j \in (i + 1)..Len(input_lines) :
              ~DHas(pinch_scan(<<>>, input_lines[j]).map, "SMITH")

\* the play step of a row whose batter is SMITH, stored under target
SmithPlayInto(target) ==
    (pc = "play" /\ ~TooShort(CurRow) /\ RowBatter(CurRow) = "SMITH") =>
        LET inn == RowInn(CurRow)
            old == CellOr(arr, inn, target, "")
            played == IF old # "" THEN old \o "; " \o RowShorthand(CurRow)
                      ELSE RowShorthand(CurRow)
            new == IF played # "" THEN played \o Repeat(", RBI", RowRbi(CurRow)) ELSE played
        IN  /\ DHas(arr', inn) /\ DHas(DGet(arr', inn), target)
            /\ CellOr(arr', inn, target, "") = new
            /\ \A k \in 1..Len(arr') : \A m \in 1..Len(arr'[k].v) :
                  (arr'[k].k # inn \/ arr'[k].v[m].k # target) =>
                      /\ DHas(arr, arr'[k].k)
                      /\ DHas(DGet(arr, arr'[k].k), arr'[k].v[m].k)
                      /\ CellOr(arr, arr'[k].k, arr'[k].v[m].k, "") = arr'[k].v[m].v

\* C2 as stated: with the line "SMITH PINCH HITS FOR JONES IN THE 7TH" in the
\* input, PinchMap maps SMITH to JONES and a row batted by SMITH is accumulated
\* into JONES's cell of the row's inning, no other cell being created.
C2_Original ==
    [][ (ScanFinished /\ \E i \in 1..Len(input_lines) : input_lines[i] = SmithLine) =>
            /\ DHas(pinch_map, "SMITH")
            /\ DGet(pinch_map, "SMITH") = "JONES"
            /\ SmithPlayInto("JONES") ]_vars

\* C2 amended: with that line in the input (and no later line registering
\* SMITH again), PinchMap maps SMITH to IN, the second token after the phrase,
\* and the play step of a row batted by SMITH accumulates the play into IN's
\* cell of the row's inning; it creates or changes no cell under another name.
C2_Amended ==
    [][ (ScanFinished /\ SmithLineLast) =>
            /\ DHas(pinch_map, "SMITH")
            /\ DGet(pinch_map, "SMITH") = "IN"
            /\ SmithPlayInto("IN") ]_vars

C2_Witness ==
    /\ SmithLineLast
    /\ CellOr(arr, "1", "IN", "") = "1B"
    /\ ~DHas(DGetOr(arr, "1", <<>>), "SMITH")

\* C3: once the input holds the header line, no step of the run raises.
C3_NoError == HasHeader(input_lines) => pc # "error"

\* exact position names and their digits
PositionDigit(tok) ==
    LET hits == {i \in 1..Len(pos_map) : pos_map[i][1] = tok}
    IN  IF hits = {} THEN "" ELSE pos_map[CHOOSE i \in hits : TRUE][2]

RECURSIVE NamedDigits(_)
NamedDigits(toks) ==
    IF toks = <<>> THEN <<>>
    ELSE (IF PositionDigit(Head(toks)) # "" THEN <<PositionDigit(Head(toks))>> ELSE <<>>)
         \o NamedDigits(Tail(toks))

RECURSIVE HyphenTokens(_)
HyphenTokens(words) ==
    IF words = <<>> THEN <<>>
    ELSE Split(Head(words), "-") \o HyphenTokens(Tail(words))

\* the words of a description, hyphenated words cut at their hyphens
Tokens(desc) == HyphenTokens(SplitWS(desc))

\* a keyword the classifier tests before DOUBLE
BeforeDouble(desc) ==
    \/ Contains(desc, "WALK") \/ Contains(desc, "HIT BY PITCH")
    \/ Contains(desc, "SACRIFICE") \/ Contains(desc, "SINGLE")

\* a keyword the classifier tests before LINEOUT, POPFLY and FLYBALL
EarlierKeyword(desc) ==
    \/ BeforeDouble(desc)
    \/ Contains(desc, "DOUBLE") \/ Contains(desc, "TRIPLE")
    \/ Contains(desc, "HOMERS") \/ Contains(desc, "HOME RUN")
    \/ Contains(desc, "STRIKEOUT") \/ Contains(desc, "GROUNDOUT")

IsAirOut(desc) ==
    Contains(desc, "LINEOUT") \/ Contains(desc, "POPFLY") \/ Contains(desc, "FLYBALL")

EndsWith(s, suffix) ==
    Len(s) >= Len(suffix) /\ SubSeq(s, Len(s) - Len(suffix) + 1, Len(s)) = suffix

\* C4: a description with DOUBLE PLAY (reaching that rule, its positions all
\* named in hyphenated words) classifies to "GDP " and one digit per position
\* named, in order, and no digit for anything that is not a position name.
C4_Claim ==
    (/\ pc = "classified"
     /\ Contains(cl_desc, "DOUBLE PLAY")
     /\ ~BeforeDouble(cl_desc)
     /\ NamedDigits(SplitWS(cl_desc)) = <<>>) =>
        cl_out = "GDP " \o Join(NamedDigits(Tokens(cl_desc)), "-")

\* C5 as stated: a LINEOUT / POPFLY / FLYBALL description classifies to a
\* shorthand ending in "f" exactly when it contains FOUL, whatever else it holds.
C5_Original ==
    (pc = "classified" /\ IsAirOut(cl_desc)) =>
        (EndsWith(cl_out, "f") <=> Contains(cl_desc, "FOUL"))

\* C5 amended: a LINEOUT / POPFLY / FLYBALL description holding no keyword of
\* an earlier rule (WALK, HIT BY PITCH, SACRIFICE, SINGLE, DOUBLE, TRIPLE,
\* HOMERS, HOME RUN, STRIKEOUT, GROUNDOUT) classifies to a shorthand ending in
\* "f" exactly when it contains FOUL.
C5_Amended ==
    (pc = "classified" /\ IsAirOut(cl_desc) /\ ~EarlierKeyword(cl_desc)) =>
        (EndsWith(cl_out, "f") <=> Contains(cl_desc, "FOUL"))

C5_Witness == pc = "classified" /\ cl_desc = "FOUL FLYBALL: CF" /\ cl_out = "F8f"

\* C6 as stated: the Row Filter applied to its own output returns it unchanged.
C6_Original == filtered_rows # <<>> => row_filter(filtered_rows) = filtered_rows

\* C6 amended: the BattingTeam = MIL retention step applied to the output of
\* the Row Filter returns it unchanged (the column selection, by the raw
\* column numbers 0, 6, 7, 11, and the Batter stripping are not idempotent).
C6_Amended == filtered_rows # <<>> => keep_mil(filtered_rows) = filtered_rows

C6_Witness ==
    /\ Len(filtered_rows) = 3
    /\ \E i \in 1..Len(input_lines) : input_lines[i] = "t1,,,,,,CHC,Roe,,,,Strikeout Looking"

\* C7: no name a cell is stored under, and no row label, is a key of PinchMap.
C7_NoSubstituteLabel ==
    ScanFinished =>
        /\ \A k \in 1..Len(arr) : \A m \in 1..Len(arr[k].v) : ~DHas(pinch_map, arr[k].v[m].k)
        /\ \A b \in 1..Len(output_rows) : ~DHas(pinch_map, output_rows[b][1])

\* C8: the play step leaves in the batter's cell the play appended ("; "
\* between plays), followed by ", RBI" once per SCORES in the description when
\* that cell is not empty, and by nothing when it is; JONES SINGLES. SMITH
\* SCORES. DOE SCORES. into an empty cell of JONES gives "1B, RBI, RBI".
C8_Rbi ==
    [][ (pc = "play" /\ ~TooShort(CurRow)) =>
            LET inn == RowInn(CurRow)
                batter == Resolve(pinch_map, RowBatter(CurRow))
                old == CellOr(arr, inn, batter, "")
                played == IF old # "" THEN old \o "; " \o RowShorthand(CurRow)
                          ELSE RowShorthand(CurRow)
                new == CellOr(arr', inn, batter, "?")
                n == Count(RowDesc(CurRow), "SCORES")
            IN  /\ played = "" => new = ""
                /\ played # "" =>
                      /\ Len(new) = Len(played) + n * Len(", RBI")
                      /\ SubSeq(new, 1, Len(played)) = played
                      /\ \A r \in 1..n :
                            SubSeq(new, Len(played) + (r - 1) * Len(", RBI") + 1,
                                   Len(played) + r * Len(", RBI")) = ", RBI"
                /\ (/\ RowDesc(CurRow) = "JONES SINGLES. SMITH SCORES. DOE SCORES."
                    /\ batter = "JONES" /\ old = "") => new = "1B, RBI, RBI" ]_vars

C8_Witness ==
    /\ pc \in {"play", "render"}
    /\ row_idx > 2
    /\ ~TooShort(filtered_rows[row_idx - 1])
    /\ RowDesc(filtered_rows[row_idx - 1]) = "JONES SINGLES. SMITH SCORES. DOE SCORES."
    /\ CellOr(arr, "1", "JONES", "") = "1B, RBI, RBI"

\* C9: an iteration of the caught-stealing loop appends ", CS" to the cell of
\* the row's inning and of the runner named before that CAUGHT STEALING, the
\* runner looked up in PinchMap under his own name, and changes nothing else.
C9_CaughtStealing ==
    [][ pc = "cs" =>
            LET inn == RowInn(CurRow)
                runner == Last(SplitWS(Split(RowDesc(CurRow), "CAUGHT STEALING")[cs_j + 1]))
                who == IF DHas(pinch_map, runner) THEN DGet(pinch_map, runner) ELSE runner
            IN  /\ pc' # "error"
                /\ arr' = SetCell(arr, inn, who, CellOr(arr, inn, who, "") \o ", CS") ]_vars

\* the position names that stand as words of their own
PositionWords(desc) == NamedDigits(SplitWS(desc))

AirLetter(desc) ==
    IF Contains(desc, "LINEOUT") THEN "L" ELSE IF Contains(desc, "POPFLY") THEN "P" ELSE "F"

\* C10: a LINEOUT / POPFLY / FLYBALL clause (no earlier keyword) naming exactly
\* one position as a word of its own classifies to L, P or F and that
\* position's digit (then the foul suffix, if any).
C10_NamedPosition ==
    (/\ pc = "classified"
     /\ IsAirOut(cl_desc)
     /\ ~EarlierKeyword(cl_desc)
     /\ Len(PositionWords(cl_desc)) = 1) =>
        cl_out = AirLetter(cl_desc) \o PositionWords(cl_desc)[1]
                    \o (IF Contains(cl_desc, "FOUL") THEN "f" ELSE "")

====
